---- MODULE Spec2Model ----
(***************************************************************************)
(* Solidity source resolution and batch static-analysis harness            *)
(* (run_slither_defi_from_cache.py): the pragma constraint solver, the     *)
(* version-pinned compiler lookup, and the resumable batch orchestrator    *)
(* with its lock file and its progress ledger.                             *)
(***************************************************************************)
EXTENDS Integers, Sequences, FiniteSets, TLC

VARIABLES
    \* ---- _pick_solc_for_pragma: inputs and result -------------------------
    pragma_expr,    \* the pragma expression, as its tokens
    installed,      \* the installed compiler versions (solc-select versions)
    max_solc,       \* the ceiling MAX_SOLC, or None
    picked,         \* the result of _pick_solc_for_pragma, or Unset / None
    \* ---- _find_solc_binary: inputs and result -----------------------------
    fs,             \* the install roots: candidate path -> kind of entry
    roots_exist,    \* root -> whether the root directory exists
    ver,            \* the requested version
    solc_bin,       \* the result of _find_solc_binary, or Unset / None
    cmd_solc,       \* the value main() passes with --solc, or Unset / None
    \* ---- the contract workdir ---------------------------------------------
    deps,           \* which dependency locations exist (VENDOR, node_modules)
    wd,             \* the workdir: entry name -> entry
    prev_wd,        \* the workdir before the last call of ensure_vendor_links
    binds,          \* number of calls of ensure_vendor_links so far
    raw,            \* the payload last handed to write_contract_workdir
    entry_path,     \* the path write_contract_workdir returned, relative to the workdir
    mats,           \* number of calls of write_contract_workdir so far
    \* ---- classify_err_tail -------------------------------------------------
    err_tail,       \* the error tail: the set of phrases it holds
    err_class,      \* the class returned for it, or Unclassified
    \* ---- one attempt of main() ---------------------------------------------
    profile,        \* per contract: skip branch taken, or the version picked
    pinned,         \* the versions _find_solc_binary finds a pinned binary for
    active,         \* the version solc-select has active (global to the machine)
    todo,           \* the keys of this run that are not done
    apc,            \* "stopped", "loop" or "waiting" (inside subprocess.run)
    cur,            \* the contract being analyzed
    cmd,            \* the command line: --solc value, --solc-args passed; and
                    \* whether solc-select use failed before it
    elapsed,        \* time spent in subprocess.run, in units of the analysis timeout
    json,           \* per contract: the file at its JSON artifact path
    rec,            \* per contract: the last record made for it
    prev_compiler,  \* per contract: the compiler of its analyzer run in an earlier run
    att_runs,       \* number of runs started
    \* ---- orchestrator: the output directory -------------------------------
    files,          \* iter_cache_files(): the cache keys, sorted
    progress,       \* the ledger file PROGRESS on disk
    lock,           \* the lock file: NoLock, or the pid written into it
    \* ---- orchestrator: one record per process (run) -----------------------
    pc,             \* process -> control point in main()
    cfg,            \* process -> environment of the run
    rows,           \* process -> in-memory rows
    done,           \* process -> in-memory set of done keys
    idx,            \* process -> position in files
    processed,      \* process -> processed_this_run
    exit,           \* process -> exit status of the last run
    \* ---- observation (history) variables ----------------------------------
    loaded,         \* process -> the ledger rows read at startup
    seen,           \* process -> keys processed in this run (bag as function)
    runs,           \* number of runs started so far
    everOk,         \* keys that some completed flush recorded with ok = 1
    last            \* what the last step did (event record)

pickVars == <<pragma_expr, installed, max_solc, picked>>
findVars == <<fs, roots_exist, ver, solc_bin, cmd_solc>>
workVars == <<deps, wd, prev_wd, binds, raw, entry_path, mats>>
diskVars == <<files, progress, lock>>
procVars == <<pc, cfg, rows, done, idx, processed, exit>>
histVars == <<loaded, seen, runs, everOk, last>>
attVars == <<profile, pinned, active, todo, apc, cur, cmd, elapsed, json, rec, prev_compiler, att_runs>>
classVars == <<err_tail, err_class>>
vars == <<pickVars, findVars, workVars, diskVars, procVars, histVars, classVars, attVars>>

None == <<>>
Unset == <<-1>>

(***************************************************************************)
(* Versions.  A version string "x.y.z" in canonical decimal spelling is    *)
(* the triple <<x, y, z>>; _vtuple is then the reading of the triple.      *)
(***************************************************************************)
MaxPatch == 1
MaxInstalled == 2

Majors == {0, 1}
Minors == {0, 1}
Patches == 0..MaxPatch
Versions == {<<a, b, c>> : a \in Majors, b \in Minors, c \in Patches}

_vtuple(v) == <<v[1], v[2], v[3]>>

\* Python tuple comparison: lexicographic
TupleLess(s, t) ==
    \/ s[1] < t[1]
    \/ s[1] = t[1] /\ s[2] < t[2]
    \/ s[1] = t[1] /\ s[2] = t[2] /\ s[3] < t[3]

TupleLeq(s, t) == s = t \/ TupleLess(s, t)

\* sorted(xs, key=_vtuple) of a list without duplicates
RECURSIVE SortedByVtuple(_)
SortedByVtuple(S) ==
    IF S = {} THEN <<>>
    ELSE LET m == CHOOSE x \in S : \A y \in S : TupleLeq(_vtuple(x), _vtuple(y))
         IN  <<m>> \o SortedByVtuple(S \ {m})

\* [v for v in xs if P(v)]
Filter(xs, P(_)) == SelectSeq(xs, P)

\* cand[-1] if cand else None
LastOrNone(cand) == IF Len(cand) > 0 THEN cand[Len(cand)] ELSE None

(***************************************************************************)
(* Pragma expressions, at the granularity of the regular expressions of    *)
(* _pick_solc_for_pragma: a sequence of terms (operator, version) and the  *)
(* text between two terms (" " stands for \s*, i.e. also for no space).    *)
(***************************************************************************)
Ops == {"", "=", "^", ">=", "<", ">", "<=", "~"}
Seps == {" ", ",", "||"}

Term(op, v) == [op |-> op, v |-> v]
\* the empty string
NoExpr == [terms |-> <<>>, sep |-> " "]
Expr1(op, v) == [terms |-> <<Term(op, v)>>, sep |-> " "]
Expr2(op1, v1, sep, op2, v2) == [terms |-> <<Term(op1, v1), Term(op2, v2)>>, sep |-> sep]

\* re.match(r"^=?\s*(\d+\.\d+\.\d+)$", expr)
MatchExact(e) == Len(e.terms) = 1 /\ e.terms[1].op \in {"", "="}
\* re.match(r"^\^\s*(\d+\.\d+\.\d+)$", expr)
MatchCaret(e) == Len(e.terms) = 1 /\ e.terms[1].op = "^"
\* re.match(r"^>=\s*(\d+\.\d+\.\d+)\s*<\s*(\d+\.\d+\.\d+)$", expr)
MatchRange(e) ==
    /\ Len(e.terms) = 2
    /\ e.terms[1].op = ">="
    /\ e.sep = " "
    /\ e.terms[2].op = "<"
\* the lower-bound test without the anchor at the end of the expression
MatchLowerUnanchored(e) == Len(e.terms) >= 1 /\ e.terms[1].op = ">="

\* re.match(r"^>=\s*(\d+\.\d+\.\d+)$", expr)
MatchLower(e) == Len(e.terms) = 1 /\ e.terms[1].op = ">="

\* the upper end of a caret range
CaretUpperMinorBug(base) ==
    IF base[1] > 0 THEN <<base[1] + 1, 0, 0>>
    ELSE <<0, base[2] + 1, 0>>

CaretUpper(base) ==
    IF base[1] > 0 THEN <<base[1] + 1, 0, 0>>
    ELSE IF base[2] > 0 THEN <<0, base[2] + 1, 0>>
    ELSE <<0, 0, base[3] + 1>>

\* the pool without the cap
CappedPoolIgnoringCap(inst_all, cap) == inst_all

\* the candidate pool: capped to <= max_solc when that leaves a candidate
CappedPool(inst_all, cap) ==
    IF cap # None
    THEN LET mt == _vtuple(cap)
             UnderCap(v) == TupleLeq(_vtuple(v), mt)
             capped == Filter(inst_all, UnderCap)
         IN  IF Len(capped) > 0 THEN capped ELSE inst_all
    ELSE inst_all

_pick_solc_for_pragma(e, inst_set, cap) ==
    IF e = NoExpr \/ inst_set = {} THEN None
    ELSE
    LET inst_all == SortedByVtuple(inst_set)
        inst == CappedPool(inst_all, cap)
    IN  IF MatchExact(e) THEN
            LET v == e.terms[1].v
            IN  IF v \in inst_set THEN v ELSE None
        ELSE IF MatchCaret(e) THEN
            LET base == _vtuple(e.terms[1].v)
                upper == CaretUpper(base)
                InCaret(v) == TupleLeq(base, _vtuple(v)) /\ TupleLess(_vtuple(v), upper)
            IN  LastOrNone(Filter(inst, InCaret))
        ELSE IF MatchRange(e) THEN
            LET lo == _vtuple(e.terms[1].v)
                hi == _vtuple(e.terms[2].v)
                InRange(v) == TupleLeq(lo, _vtuple(v)) /\ TupleLess(_vtuple(v), hi)
            IN  LastOrNone(Filter(inst, InRange))
        ELSE IF MatchLower(e) THEN
            LET lo == _vtuple(e.terms[1].v)
                AtLeast(v) == TupleLeq(lo, _vtuple(v))
            IN  LastOrNone(Filter(inst, AtLeast))
        ELSE None


(***************************************************************************)
(* The pragma expressions and installed sets the solver is applied to.     *)
(***************************************************************************)
TwoTermShapes == {<<">=", " ", "<">>, <<">=", ",", "<">>, <<">=", " ", "<=">>}

ExprPool ==
    {Expr1(op, v) : op \in Ops, v \in Versions}
    \cup {Expr2(sh[1], v1, sh[2], sh[3], v2) :
            sh \in TwoTermShapes, v1 \in Versions, v2 \in Versions}

InstalledPool == {S \in SUBSET Versions : Cardinality(S) <= MaxInstalled}

PickInit ==
    /\ pragma_expr \in ExprPool
    /\ installed \in InstalledPool
    /\ max_solc = None
    /\ picked = Unset

PickIdle ==
    /\ pragma_expr = NoExpr
    /\ installed = {}
    /\ max_solc = None
    /\ picked = Unset

\* picked = _pick_solc_for_pragma(pragma or "", installed_solc, MAX_SOLC or None)
Pick ==
    /\ picked = Unset
    /\ pragma_expr # NoExpr
    /\ picked' = _pick_solc_for_pragma(pragma_expr, installed, max_solc)
    /\ UNCHANGED <<pragma_expr, installed, max_solc>>


(***************************************************************************)
(* _find_solc_binary.  A candidate path is (root, layout slot, version);   *)
(* the six slots are the six entries of `candidates`, in their order.  An  *)
(* entry is absent, a regular file, a directory, or a symbolic link to a   *)
(* regular file outside the roots (the `solc` of the ambient PATH).        *)
(***************************************************************************)
MaxFindPatch == 1
MaxEntries == 2

\* _solc_select_roots(), in its order
Roots == {1, 2}
Slots == 1..6
FindVersions == {<<0, 8, c>> : c \in 0..MaxFindPatch}
Kinds == {"file", "dir", "link"}

Path(r, s, v) == [root |-> r, slot |-> s, v |-> v]
Paths == {Path(r, s, v) : r \in Roots, s \in Slots, v \in FindVersions}

\* results: nothing yet, None, or a path string
UnsetPath == [root |-> -1, slot |-> 0, v |-> None]
NonePath == [root |-> 0, slot |-> 0, v |-> None]
\* the unpinned solc on the ambient PATH
AmbientSolc == [root |-> 0, slot |-> 7, v |-> None]

\* slot 5 is <slot 1>/solc and slot 6 is <slot 2>/solc
ParentSlot(s) == IF s = 5 THEN 1 ELSE IF s = 6 THEN 2 ELSE 0

KindAt(f, p) == IF p \in DOMAIN f THEN f[p] ELSE "absent"

\* p.exists() and p.is_file(): both follow symbolic links
ExistsIsFile(f, p) == KindAt(f, p) \in {"file", "link"}

\* str(p.resolve())
Resolve(f, p) == IF KindAt(f, p) = "link" THEN AmbientSolc ELSE p

RECURSIVE FirstHit(_, _, _, _)
FirstHit(f, r, v, s) ==
    IF s > 6 THEN NonePath
    ELSE IF ExistsIsFile(f, Path(r, s, v)) THEN Resolve(f, Path(r, s, v))
    ELSE FirstHit(f, r, v, s + 1)

RECURSIVE FindFrom(_, _, _, _)
FindFrom(f, rex, v, r) ==
    IF r \notin Roots THEN NonePath
    ELSE IF ~rex[r] THEN FindFrom(f, rex, v, r + 1)
    ELSE LET hit == FirstHit(f, r, v, 1)
         IN  IF hit # NonePath THEN hit ELSE FindFrom(f, rex, v, r + 1)

\* as _find_solc_binary, but falling back to the `solc` of the ambient PATH
FindWithPathFallback(f, rex, v) ==
    IF v = None THEN NonePath
    ELSE IF FindFrom(f, rex, v, 1) # NonePath THEN FindFrom(f, rex, v, 1)
    ELSE AmbientSolc

_find_solc_binary(f, rex, v) ==
    IF v = None THEN NonePath ELSE FindFrom(f, rex, v, 1)

\* file systems: at most MaxEntries entries, a <dir>/solc only inside a directory,
\* entries only under roots that exist
RECURSIVE PathSetsUpTo(_)
PathSetsUpTo(k) ==
    IF k = 0 THEN {{}}
    ELSE LET prev == PathSetsUpTo(k - 1)
         IN  prev \cup {T \cup {x} : T \in prev, x \in Paths}

WellFormedFs(f, rex) ==
    \A p \in DOMAIN f :
        /\ rex[p.root]
        /\ ParentSlot(p.slot) # 0 => KindAt(f, Path(p.root, ParentSlot(p.slot), p.v)) = "dir"

FindInit ==
    /\ roots_exist \in [Roots -> BOOLEAN]
    /\ \E D \in PathSetsUpTo(MaxEntries) : fs \in [D -> Kinds]
    /\ WellFormedFs(fs, roots_exist)
    /\ ver \in FindVersions \cup {None}
    /\ solc_bin = UnsetPath
    /\ cmd_solc = UnsetPath

FindIdle ==
    /\ roots_exist = [r \in Roots |-> FALSE]
    /\ fs = [q \in {} |-> "file"]
    /\ ver = None
    /\ solc_bin = UnsetPath
    /\ cmd_solc = UnsetPath

\* solc_bin = _find_solc_binary(picked or "") if picked else None
Find ==
    /\ solc_bin = UnsetPath
    /\ solc_bin' = IF ver # None THEN _find_solc_binary(fs, roots_exist, ver) ELSE NonePath
    /\ UNCHANGED <<fs, roots_exist, ver, cmd_solc>>

\* if solc_bin: cmd += ["--solc", solc_bin]
BuildCmd ==
    /\ solc_bin # UnsetPath
    /\ cmd_solc = UnsetPath
    /\ cmd_solc' = IF solc_bin # NonePath THEN solc_bin ELSE NonePath
    /\ UNCHANGED <<fs, roots_exist, ver, solc_bin>>


(***************************************************************************)
(* The contract workdir.  An entry of the workdir is named by its path     *)
(* relative to contract_dir; it is absent, a regular file (with content),  *)
(* a directory, a symbolic link (with its target) or a dangling symbolic   *)
(* link.                                                                   *)
(***************************************************************************)
MaxPreexisting == 2

\* the first loop of ensure_vendor_links: dest name -> source under VENDOR
VendorLibs == {"solmate", "solady", "forge-std", "openzeppelin-contracts"}
PkgRoot == "@openzeppelin"
OzContracts == "@openzeppelin/contracts"
OzUpgradeable == "@openzeppelin/contracts-upgradeable"
Prefixes == {"contracts", "src", "lib"}
NodeModules == "node_modules"
LinkNames == VendorLibs \cup {OzContracts, OzUpgradeable} \cup Prefixes \cup {NodeModules}

\* the files a payload is written to
SourceNames == {"A.sol", "src/A.sol", "contract.sol"}

Names == LinkNames \cup {PkgRoot} \cup SourceNames

\* a bundle file that is no Solidity source, and a file of the workdir of
\* another contract, WORK/eth_0xbb, seen from contract_dir
Readme == "README.md"
Outside == "../eth_0xbb/contract.sol"
OtherNames == {Readme, Outside}

Absent == [kind |-> "absent", data |-> ""]
Dir == [kind |-> "dir", data |-> ""]
FileWith(content) == [kind |-> "file", data |-> content]
Link(target) == [kind |-> "link", data |-> target]
Dangling == [kind |-> "dangling", data |-> "gone"]

EmptyWorkdir == [n \in Names \cup OtherNames |-> Absent]

\* the directory an entry lives in, "" being contract_dir itself
ParentName(n) ==
    IF n \in {OzContracts, OzUpgradeable} THEN PkgRoot
    ELSE IF n = "src/A.sol" THEN "src"
    ELSE ""

\* Path.is_dir(): follows symbolic links; a link of the model points to a directory
IsDir(w, n) == n = "" \/ w[n].kind \in {"dir", "link"}

\* Path.exists(): follows symbolic links, False for a dangling link and for a
\* path whose parent is no directory
PathExists(w, n) ==
    /\ w[n].kind \in {"file", "dir", "link"}
    /\ IsDir(w, ParentName(n))

\* the dependency locations: whether VENDOR exists, which of its library sources
\* exist, whether NODE_MODULES_DIR exists, whether the npm install and the
\* vendored clone hold OpenZeppelin's contracts (with access/), and whether
\* _resolve_oz_upgradeable_dir finds a directory
DepsPool ==
    {d \in [vendor : BOOLEAN,
            libs : {{}, {"solmate"}, VendorLibs},
            oz_nm : BOOLEAN,
            oz_vendor : BOOLEAN,
            upg : BOOLEAN,
            nm : BOOLEAN] :
        /\ d.oz_nm => d.nm
        /\ (d.oz_vendor \/ d.libs # {}) => d.vendor}
NoDeps == [vendor |-> FALSE, libs |-> {}, oz_nm |-> FALSE, oz_vendor |-> FALSE, upg |-> FALSE, nm |-> FALSE]

NpmOz == "NODE_MODULES_DIR/@openzeppelin/contracts"
VendorOz == "VENDOR/openzeppelin-contracts/contracts"
\* the resolver's None
NoDir == "no directory"

\* the first candidate that exists: the npm install, then the vendored clone
_resolve_oz_contracts_dir(d) ==
    IF d.oz_nm THEN NpmOz
    ELSE IF d.oz_vendor THEN VendorOz
    ELSE NoDir

\* no payload has been read yet
NoTarget == "no_target"
NoPayload == [layers |-> <<>>, kind |-> "text", sources |-> <<>>, target |-> NoTarget, text |-> ""]

\* dest.symlink_to(target) replacing whatever is there
SymlinkOverwriting(w, n, target) ==
    IF IsDir(w, ParentName(n)) THEN [w EXCEPT ![n] = Link(target)] ELSE w

\* if not dest.exists(): dest.symlink_to(target), inside try/except: symlink_to
\* raises FileExistsError on a dangling link and an error when the parent is no
\* directory, and the exception is swallowed
SymlinkIfFree(w, n, target) ==
    IF PathExists(w, n) THEN w
    ELSE IF w[n].kind = "absent" /\ IsDir(w, ParentName(n)) THEN [w EXCEPT ![n] = Link(target)]
    ELSE w

\* pkg_root.mkdir(parents=True, exist_ok=True) followed by the link of one
\* package; mkdir raises when pkg_root is a file or a dangling link
BindPackage(w, found, n, target) ==
    IF ~found THEN w
    ELSE IF w[PkgRoot].kind = "absent"
         THEN SymlinkIfFree([w EXCEPT ![PkgRoot] = Dir], n, target)
    ELSE IF IsDir(w, PkgRoot) THEN SymlinkIfFree(w, n, target)
    ELSE w

\* the first loop, one candidate after the other
RECURSIVE BindLibs(_, _, _)
BindLibs(w, d, rest) ==
    IF rest = {} THEN w
    ELSE LET n == CHOOSE x \in rest : TRUE
             w1 == IF n \in d.libs THEN SymlinkIfFree(w, n, "VENDOR/" \o n) ELSE w
         IN  BindLibs(w1, d, rest \ {n})

RECURSIVE BindPrefixes(_, _)
BindPrefixes(w, rest) ==
    IF rest = {} THEN w
    ELSE LET n == CHOOSE x \in rest : TRUE
         IN  BindPrefixes(SymlinkIfFree(w, n, "contract_dir"), rest \ {n})

ensure_vendor_links(w, d) ==
    IF ~d.vendor THEN w
    ELSE LET w1 == BindLibs(w, d, VendorLibs)
             oz_contracts == _resolve_oz_contracts_dir(d)
             w2 == BindPackage(w1, oz_contracts # NoDir, OzContracts, oz_contracts)
             w3 == BindPackage(w2, d.upg, OzUpgradeable, "oz_upgradeable")
             w4 == BindPrefixes(w3, Prefixes)
         IN  IF d.nm THEN SymlinkIfFree(w4, NodeModules, "NODE_MODULES_DIR") ELSE w4

\* the workdirs the binding step is applied to: at most MaxPreexisting entries
\* are there already, of any kind
PreKinds == {FileWith("x"), Dir, Link("elsewhere"), Dangling}

WellFormedWorkdir(w) ==
    \A n \in Names : (w[n] # Absent /\ ParentName(n) # "") => IsDir(w, ParentName(n))

\* workdirs with the entries of one set of names present
RECURSIVE WorkdirsOver(_)
WorkdirsOver(ns) ==
    IF ns = {} THEN {EmptyWorkdir}
    ELSE LET n == CHOOSE x \in ns : TRUE
         IN  {[w EXCEPT ![n] = k] : w \in WorkdirsOver(ns \ {n}), k \in PreKinds}

WorkdirPool ==
    {w \in UNION {WorkdirsOver(ns) : ns \in {x \in SUBSET Names : Cardinality(x) <= MaxPreexisting}} :
        WellFormedWorkdir(w)}

BindInit ==
    /\ deps \in DepsPool
    /\ wd \in WorkdirPool
    /\ prev_wd = wd
    /\ binds = 0
    /\ raw = NoPayload
    /\ entry_path = ""
    /\ mats = 0

\* ensure_vendor_links(contract_dir) is called
Bind ==
    /\ binds < 2
    /\ binds' = binds + 1
    /\ prev_wd' = wd
    /\ wd' = ensure_vendor_links(wd, deps)
    /\ UNCHANGED <<deps, raw, entry_path, mats>>

(***************************************************************************)
(* write_contract_workdir.  A payload is the text of a cache file: a body  *)
(* (a Standard-JSON object with its sources in the order of the JSON text  *)
(* and its compilationTarget, or Solidity text) under zero or more         *)
(* wrappings, outermost first: "quote" is the body encoded as a JSON       *)
(* string, "brace" is the body between one more pair of braces.            *)
(***************************************************************************)
MaxSources == 2
MaxLayers == 2

SourcePaths == {"A.sol", "/A.sol", "src/A.sol", "src\\A.sol", Readme, Outside}
Plain == "contract A{}"
RelImport == "import '../Proxy.sol';"
PkgImport == "import '@openzeppelin/contracts/proxy/Proxy.sol';"
Contents == {Plain, RelImport, ""}
RawText == "the payload as read"
RawWithImport == "the payload as read, holding import '../Proxy.sol';"
RawRewritten == "the payload, holding import '@openzeppelin/contracts/proxy/Proxy.sol';"
Raised == "raised"

\* str(rel).replace("\\", "/").lstrip("/")
Norm(p) ==
    IF p = "/A.sol" THEN "A.sol"
    ELSE IF p = "src\\A.sol" THEN "src/A.sol"
    ELSE p

\* rewrite_known_imports: the table entry ("../Proxy.sol", ...) applied inside quotes
rewrite_known_imports(c) ==
    IF c = RelImport THEN PkgImport
    ELSE IF c = RawWithImport THEN RawRewritten
    ELSE c

\* st_size of a file with the given content
SizeOf(c) ==
    IF c = "" THEN 0
    ELSE IF c = Plain THEN 12
    ELSE IF c = RelImport THEN 22
    ELSE 49

SourceLists ==
    {s \in UNION {[1..n -> [path : SourcePaths, content : Contents]] : n \in 1..MaxSources} :
        \A i, j \in 1..Len(s) : s[i].path = s[j].path => i = j}

LayerLists == UNION {[1..n -> {"quote", "brace"}] : n \in 0..MaxLayers}

JsonPayloads ==
    [layers : LayerLists, kind : {"json"}, sources : SourceLists,
     target : SourcePaths \cup {NoTarget}, text : {""}]
TextPayloads ==
    [layers : {<<>>}, kind : {"text"}, sources : {<<>>}, target : {NoTarget}, text : Contents]
PayloadPool == JsonPayloads \cup TextPayloads

\* unwrap_etherscan_source: decode one JSON string, then drop one pair of braces
unwrap_etherscan_source(ls) ==
    LET t == IF ls # <<>> /\ Head(ls) = "quote" THEN Tail(ls) ELSE ls
    IN  IF t # <<>> /\ Head(t) = "brace" THEN Tail(t) ELSE t

\* parse_standard_json_bundle returns sources: the unwrapped text is a JSON
\* object with a non-empty sources map
Parses(r) == r.kind = "json" /\ unwrap_etherscan_source(r.layers) = <<>>

\* the entry a name denotes: src/ may be a link to contract_dir itself
RealName(w, n) ==
    IF n = "src/A.sol" /\ w["src"] = Link("contract_dir") THEN "A.sol" ELSE n

\* p.parent.mkdir(parents=True, exist_ok=True); p.write_text(...) raises
WriteRaises(w, n) ==
    \/ ParentName(n) # "" /\ w[ParentName(n)].kind \in {"file", "dangling"}
    \/ w[RealName(w, n)].kind \in {"dir"}

\* p.parent.mkdir(parents=True, exist_ok=True); p.write_text(content)
WriteText(w, n, content) ==
    LET w1 == IF ParentName(n) # "" /\ w[ParentName(n)].kind = "absent"
              THEN [w EXCEPT ![ParentName(n)] = Dir] ELSE w
        r == RealName(w1, n)
    IN  IF w1[r].kind \in {"link", "dangling"} THEN w1
        ELSE [w1 EXCEPT ![r] = FileWith(content)]

\* the loop over srcs.items()
RECURSIVE WriteSources(_, _)
WriteSources(w, s) ==
    IF s = <<>> THEN w
    ELSE WriteSources(WriteText(w, Norm(Head(s).path), Head(s).content), Tail(s))

RECURSIVE SourcesRaise(_, _)
SourcesRaise(w, s) ==
    IF s = <<>> THEN FALSE
    ELSE \/ WriteRaises(w, Norm(Head(s).path))
         \/ SourcesRaise(WriteText(w, Norm(Head(s).path), Head(s).content), Tail(s))

\* contract_dir.rglob("*.sol") restricted to files; rglob does not descend
\* into linked directories
SolFiles(w) ==
    {n \in SourceNames : w[n].kind = "file" /\ (ParentName(n) # "" => w[ParentName(n)].kind = "dir")}

Depth(n) == IF ParentName(n) = "" THEN 1 ELSE 2

\* str(p) order of the names of one depth
NameRank(n) == IF n = "A.sol" THEN 1 ELSE IF n = "contract.sol" THEN 2 ELSE 3

\* sorted(..., key = (number of parts, -size, str(p)))[0]
Before(w, a, b) ==
    \/ Depth(a) < Depth(b)
    \/ Depth(a) = Depth(b) /\ SizeOf(w[a].data) > SizeOf(w[b].data)
    \/ Depth(a) = Depth(b) /\ SizeOf(w[a].data) = SizeOf(w[b].data) /\ NameRank(a) <= NameRank(b)

Shallowest(w) == CHOOSE a \in SolFiles(w) : \A b \in SolFiles(w) : Before(w, a, b)

\* the text of the cache file: Solidity text, or JSON text that holds the
\* contents of its sources
RawOf(r) ==
    IF r.kind = "text" /\ r.layers = <<>> THEN r.text
    ELSE IF \E i \in 1..Len(r.sources) : r.sources[i].content = RelImport THEN RawWithImport
    ELSE RawText

\* the single-file branch: contract.sol with the known imports rewritten
SingleFile(w, r, d) ==
    IF WriteRaises(w, "contract.sol")
    THEN [wd |-> w, path |-> Raised]
    ELSE [wd |-> ensure_vendor_links(WriteText(w, "contract.sol", rewrite_known_imports(RawOf(r))), d),
          path |-> "contract.sol"]

\* the multi-file branch: every source written, links bound, entry chosen
MultiFile(w, r, d) ==
    LET w1 == ensure_vendor_links(WriteSources(w, r.sources), d)
        e == Norm(r.target)
    IN  IF SourcesRaise(w, r.sources) THEN [wd |-> w, path |-> Raised]
        ELSE IF r.target # NoTarget /\ w1[RealName(w1, e)].kind = "file"
             THEN [wd |-> w1, path |-> e]
        ELSE IF SolFiles(w1) # {} THEN [wd |-> w1, path |-> Shallowest(w1)]
        ELSE [wd |-> WriteText(w1, "contract.sol", rewrite_known_imports(RawOf(r))),
              path |-> "contract.sol"]

write_contract_workdir(w, r, d) ==
    IF Parses(r) THEN MultiFile(w, r, d) ELSE SingleFile(w, r, d)

\* the dependency locations of a run: none, or all of them
FullDeps == [vendor |-> TRUE, libs |-> VendorLibs, oz_nm |-> TRUE, oz_vendor |-> TRUE, upg |-> TRUE, nm |-> TRUE]
\* no VENDOR directory, OpenZeppelin installed with npm
NpmDeps == [NoDeps EXCEPT !.nm = TRUE, !.oz_nm = TRUE]
\* no npm install, OpenZeppelin cloned under VENDOR
VendorDeps == [NoDeps EXCEPT !.vendor = TRUE, !.oz_vendor = TRUE]

\* WORK/<cid> is new, or an earlier attempt on the contract left it
MaterializeInit ==
    /\ deps \in {NoDeps, NpmDeps, VendorDeps, FullDeps}
    /\ wd \in {EmptyWorkdir} \cup {SingleFile(EmptyWorkdir, p, deps).wd : p \in TextPayloads}
    /\ prev_wd = wd
    /\ binds = 0
    /\ raw = NoPayload
    /\ entry_path = ""
    /\ mats = 0

\* main() reads a cache file and calls write_contract_workdir(cdir, raw)
Materialize ==
    /\ mats < 1
    /\ \E r \in PayloadPool :
        LET res == write_contract_workdir(wd, r, deps)
        IN  /\ raw' = r
            /\ wd' = res.wd
            /\ entry_path' = res.path
    /\ prev_wd' = wd
    /\ mats' = mats + 1
    /\ UNCHANGED <<deps, binds>>


\* no workdir is in play
WorkIdle ==
    /\ deps = NoDeps
    /\ wd = <<>>
    /\ prev_wd = <<>>
    /\ binds = 0
    /\ raw = NoPayload
    /\ entry_path = ""
    /\ mats = 0


(***************************************************************************)
(* classify_err_tail.  An error tail is the lines the analyzer printed,    *)
(* each line one phrase of a vocabulary; a substring test is a test of     *)
(* which phrases hold the substring.  The tests are made on the lowercased *)
(* tail, the test for the check mark on the tail as given.                 *)
(***************************************************************************)
MaxPhrases == 3

Phrases ==
    {"CHECKMARK done", "@openzeppelin/contracts/access/Ownable.sol", "OpenZeppelin",
     "File not found", "Source \"A.sol\" not found", "not found", "import", "source",
     "ParserError", "pragma", "requires different compiler version", "compiler version",
     "solc", "version", "not installed", "Invalid option to --combined-json",
     "compact-format", "Unknown file", "contract.sol", "Slither", "Error", "Exception"}

\* the needles of classify_err_tail a lowercased phrase holds
NeedlesOf(p) ==
    IF p = "@openzeppelin/contracts/access/Ownable.sol" THEN {"@openzeppelin", "openzeppelin"}
    ELSE IF p = "OpenZeppelin" THEN {"openzeppelin"}
    ELSE IF p = "File not found" THEN {"file not found", "not found"}
    ELSE IF p = "Source \"A.sol\" not found" THEN {"source", "not found"}
    ELSE IF p = "ParserError" THEN {"parsererror", "error"}
    ELSE IF p = "requires different compiler version"
         THEN {"requires different compiler version", "compiler version", "version"}
    ELSE IF p = "compiler version" THEN {"compiler version", "version"}
    ELSE IF p = "Invalid option to --combined-json" THEN {"invalid option to --combined-json"}
    ELSE IF p = "Unknown file" THEN {"unknown file"}
    ELSE IF p = "Slither" THEN {"slither"}
    ELSE IF p = "Error" THEN {"error"}
    ELSE IF p = "Exception" THEN {"exception"}
    ELSE IF p = "CHECKMARK done" THEN {}
    ELSE {p}

\* needle in t, t being err_tail.lower()
In(needle, tail) == \E p \in tail : needle \in NeedlesOf(p)

\* the check mark in err_tail
HasCheckMark(tail) == "CHECKMARK done" \in tail

Tails == {t \in SUBSET Phrases : Cardinality(t) <= MaxPhrases}

\* the generic import tests made before the OpenZeppelin test
classify_generic_first(tail) ==
    IF tail = {} THEN "no_output"
    ELSE IF HasCheckMark(tail) THEN "ok"
    ELSE IF \/ In("file not found", tail)
            \/ In("not found", tail) /\ In("import", tail)
            \/ In("source", tail) /\ In("not found", tail)
         THEN "missing_import"
    ELSE IF In("@openzeppelin", tail) \/ In("openzeppelin", tail) THEN "openzeppelin_import"
    ELSE "other"

classify_err_tail(tail) ==
    IF tail = {} THEN "no_output"
    ELSE IF HasCheckMark(tail) THEN "ok"
    ELSE IF /\ In("@openzeppelin", tail) \/ In("openzeppelin", tail)
            /\ \/ In("file not found", tail)
               \/ In("source", tail) /\ In("not found", tail)
               \/ In("not found", tail) /\ In("import", tail)
         THEN "openzeppelin_import"
    ELSE IF In("file not found", tail) \/ (In("not found", tail) /\ In("import", tail))
         THEN "missing_import"
    ELSE IF In("source", tail) /\ In("not found", tail) THEN "missing_import"
    ELSE IF In("parsererror", tail) /\ In("source", tail) /\ In("not found", tail)
         THEN "missing_import"
    ELSE IF In("@openzeppelin", tail) \/ In("openzeppelin", tail) THEN "openzeppelin_import"
    ELSE IF In("pragma", tail) /\ (In("requires different compiler version", tail) \/ In("compiler version", tail))
         THEN "solc_version_mismatch"
    ELSE IF In("solc", tail) /\ In("version", tail) /\ In("not installed", tail) THEN "solc_missing"
    ELSE IF In("invalid option to --combined-json", tail) /\ In("compact-format", tail)
         THEN "solc_combined_json_flag"
    ELSE IF In("unknown file", tail) /\ In("contract.sol", tail) THEN "crytic_unknown_file"
    ELSE IF In("slither", tail) /\ (In("error", tail) \/ In("exception", tail)) THEN "slither_error"
    ELSE "other"

Unclassified == "unclassified"

ClassifyIdle ==
    /\ err_tail = {}
    /\ err_class = Unclassified

ClassifyInit ==
    /\ err_tail \in Tails
    /\ err_class = Unclassified

\* err_c = classify_err_tail(err_t)
Classify ==
    /\ err_class = Unclassified
    /\ err_class' = classify_err_tail(err_tail)
    /\ UNCHANGED err_tail


(***************************************************************************)
(* One attempt of main(): the body of the loop over the cache files, from  *)
(* the choice of the compiler to the record.  The analyzer and solc-select *)
(* are external programs: what they do is a choice among what they can do. *)
(***************************************************************************)
NContracts == 2
MaxAttRuns == 2
MaxWait == 2

Contracts == 1..NContracts
Old == <<0, 5, 17>>
New == <<0, 8, 26>>
AttVersions == {Old, New}
NoPick == None
ArgsFloor == <<0, 6, 0>>

\* what the analyzer leaves on stderr, or on stdout when stderr is empty: nothing,
\* an error message, an error message quoting a source line with a check mark
AnalyzerOutputs == {{}, {"Error"}, {"ParserError", "CHECKMARK done"}}

\* what the lines before the try decide for a contract: a skip record, or the
\* version _pick_solc_for_pragma returned (NoPick: no pragma or no match); and
\* what the analyzer prints when it is run on the contract
ProfilesPrinting(outs) ==
    [skip : {"none"}, picked : AttVersions \cup {NoPick}, output : outs]
        \cup [skip : {"skip_old_pragma", "skip_missing_exact_solc"}, picked : {NoPick}, output : {{}}]

Profiles == ProfilesPrinting({{"Error"}})

\* the file at JSONDIR/<cid>.json
ArtifactStates == {"absent", "empty", "partial", "whole"}
\* what one analyzer process does to it
ArtifactEffects == {"none", "empty", "partial", "whole"}
ExitCodes == {0, 1}

NoCmd == [solc |-> None, solc_args |-> FALSE, use_failed |-> FALSE]

\* the row appended for a contract, with what the attempt did: whether the
\* analyzer ran, under which compiler, with --solc-args or not, after a failed
\* solc-select use or not, and whether it wrote a non-empty artifact
NoRec ==
    [made |-> FALSE, solc_picked |-> NoPick, ok |-> 0, returncode |-> 0, json_path |-> FALSE,
     err_tail |-> {}, err_class |-> "", solc_args |-> FALSE, compiler |-> None, left_json |-> FALSE,
     ran |-> FALSE, use_failed |-> FALSE]

SkipRec(p) ==
    [made |-> TRUE, solc_picked |-> NoPick, ok |-> 0,
     returncode |-> IF p.skip = "skip_old_pragma" THEN 0 - 2 ELSE 0 - 3,
     json_path |-> FALSE, err_tail |-> {"Skipped"}, err_class |-> p.skip, solc_args |-> FALSE, compiler |-> None,
     left_json |-> FALSE, ran |-> FALSE, use_failed |-> FALSE]

NoOutputNote == "(no output) returncode=N"

\* proc_tail(stdout, stderr, returncode): empty output becomes a note
proc_tail(out) == IF out = {} THEN {NoOutputNote} ELSE out

\* ok = 1 if (Path(jout_abs).exists() and Path(jout_abs).stat().st_size > 0) else 0
OkOf(artifact) == IF artifact \in {"partial", "whole"} THEN 1 ELSE 0

\* the compiler the analyzer runs: the --solc binary, else the solc on PATH,
\* which runs the version solc-select has active
CompilerOf(c, act) == IF c.solc # None THEN c.solc ELSE act

\* solc_args_to_use: SOLC_ARGS_EFFECTIVE, which is never empty, unless the
\* picked version is below 0.6.0
solc_args_to_use(pk) == ~(pk # NoPick /\ TupleLess(_vtuple(pk), ArgsFloor))

\* no contract is in play
AttemptIdle ==
    /\ profile = <<>>
    /\ pinned = {}
    /\ active = None
    /\ todo = {}
    /\ apc = "stopped"
    /\ cur = 0
    /\ cmd = <<>>
    /\ elapsed = 0
    /\ json = <<>>
    /\ rec = <<>>
    /\ prev_compiler = <<>>
    /\ att_runs = 0

AttemptInit ==
    /\ profile \in [Contracts -> Profiles]
    /\ pinned \in SUBSET AttVersions
    /\ active \in AttVersions
    /\ todo = {}
    /\ apc = "stopped"
    /\ cur = 0
    /\ cmd = NoCmd
    /\ elapsed = 0
    /\ json = [c \in Contracts |-> "absent"]
    /\ rec = [c \in Contracts |-> NoRec]
    /\ prev_compiler = [c \in Contracts |-> None]
    /\ att_runs = 0

Lowest(S) == CHOOSE c \in S : \A d \in S : c <= d

\* main() starts; the keys not in `done` are the ones it will attempt
StartAttempts ==
    /\ apc = "stopped"
    /\ att_runs < MaxAttRuns
    /\ att_runs' = att_runs + 1
    /\ \E t \in SUBSET Contracts : t # {} /\ todo' = t
    /\ prev_compiler' = [c \in Contracts |-> IF rec[c].ran /\ ~rec[c].use_failed THEN rec[c].compiler
                                            ELSE prev_compiler[c]]
    /\ apc' = "loop"
    /\ UNCHANGED <<profile, pinned, active, cur, cmd, elapsed, json, rec>>

\* the two skip branches: a record and `continue`
SkipAttempt ==
    /\ apc = "loop" /\ todo # {}
    /\ LET c == Lowest(todo)
       IN  /\ profile[c].skip # "none"
           /\ rec' = [rec EXCEPT ![c] = SkipRec(profile[c])]
           /\ todo' = todo \ {c}
    /\ UNCHANGED <<profile, pinned, active, apc, cur, cmd, elapsed, json, prev_compiler, att_runs>>

\* _solc_select_use(picked) if picked, the command line, subprocess.run(cmd)
Launch ==
    /\ apc = "loop" /\ todo # {}
    /\ LET c == Lowest(todo)
           pk == profile[c].picked
       IN  /\ profile[c].skip = "none"
           /\ cur' = c
           /\ \E use_ok \in BOOLEAN :
                /\ active' = IF pk # NoPick /\ use_ok THEN pk ELSE active
                /\ cmd' = [solc |-> IF pk # NoPick /\ pk \in pinned THEN pk ELSE None,
                           solc_args |-> solc_args_to_use(pk),
                           use_failed |-> pk # NoPick /\ ~use_ok]
    /\ apc' = "waiting"
    /\ elapsed' = 0
    /\ UNCHANGED <<profile, pinned, todo, json, rec, prev_compiler, att_runs>>

\* the analyzer is still running, and subprocess.run is still waiting for it
Wait ==
    /\ apc = "waiting"
    /\ elapsed < MaxWait
    /\ elapsed' = elapsed + 1
    /\ UNCHANGED <<profile, pinned, active, todo, apc, cur, cmd, json, rec, prev_compiler, att_runs>>

\* the analyzer exits: the ok test and the record
AnalyzerExit ==
    /\ apc = "waiting"
    /\ \E rc \in ExitCodes, eff \in ArtifactEffects :
        LET after == IF eff = "none" THEN json[cur] ELSE eff
            err_t == proc_tail(profile[cur].output)
        IN  /\ json' = [json EXCEPT ![cur] = after]
            /\ rec' = [rec EXCEPT ![cur] =
                    [made |-> TRUE, solc_picked |-> profile[cur].picked, ok |-> OkOf(after),
                     returncode |-> rc, json_path |-> OkOf(after) = 1,
                     err_tail |-> err_t,
                     err_class |-> IF OkOf(after) = 1 THEN "ok" ELSE classify_err_tail(err_t),
                     solc_args |-> cmd.solc_args, compiler |-> CompilerOf(cmd, active),
                     left_json |-> eff \in {"partial", "whole"}, ran |-> TRUE,
                     use_failed |-> cmd.use_failed]]
    /\ todo' = todo \ {cur}
    /\ apc' = "loop"
    /\ UNCHANGED <<profile, pinned, active, cur, cmd, elapsed, prev_compiler, att_runs>>

\* an exception inside the try (the analyzer cannot be started): the except record
AttemptRaises ==
    /\ apc = "waiting"
    /\ elapsed = 0
    /\ rec' = [rec EXCEPT ![cur] =
            [made |-> TRUE, solc_picked |-> profile[cur].picked, ok |-> 0,
             returncode |-> 0 - 999, json_path |-> FALSE, err_tail |-> {"Exception"}, err_class |-> "exception",
             solc_args |-> FALSE, compiler |-> None, left_json |-> FALSE, ran |-> FALSE, use_failed |-> FALSE]]
    /\ todo' = todo \ {cur}
    /\ apc' = "loop"
    /\ UNCHANGED <<profile, pinned, active, cur, cmd, elapsed, json, prev_compiler, att_runs>>

\* the loop is over
EndAttempts ==
    /\ apc = "loop" /\ todo = {}
    /\ apc' = "stopped"
    /\ UNCHANGED <<profile, pinned, active, todo, cur, cmd, elapsed, json, rec, prev_compiler, att_runs>>


(***************************************************************************)
(* The batch orchestrator, main().  The output directory holds the ledger  *)
(* PROGRESS and the lock file; each process is one invocation of main().   *)
(***************************************************************************)
NKeys == 3
MaxRuns == 3
BATCH_SIZE == 2

Procs == {1, 2}
Keys == 1..NKeys

\* no ledger is longer: a record per key and a junk line per run
MaxRows == NKeys + MaxRuns
NoLock == 0

\* exit statuses of a run: none yet, a normal return, an uncaught exception,
\* SystemExit(2), or the process was killed
NotRun == "not_run"
ExitOk == "exit_0"
ExitTraceback == "exit_1"
ExitLockConflict == "exit_2"
ExitKilled == "killed"
NonZeroExits == {ExitTraceback, ExitLockConflict}

\* what happens to one contract, decided by its payload and by the tools:
\*   raise_*   an exception before the try block of the loop body
\*   skip_*    the two skip records
\*   ok, fail  the analyzer ran; a non-empty JSON exists (ok) or not (fail)
\*   exception an exception inside the try block
RaiseOutcomes == {"raise_read", "raise_materialize", "raise_pragma"}
SkipOutcomes == {"skip_old_pragma", "skip_missing_exact_solc"}
TryOutcomes == {"ok", "fail", "exception"}
Outcomes == RaiseOutcomes \cup SkipOutcomes \cup TryOutcomes

\* the err_class column, up to what the ledger logic can tell apart: "ok", one
\* of the two skip classes ("skip"), or a class of a failed attempt ("error")
ErrClass(o) ==
    IF o = "ok" THEN "ok" ELSE IF o \in SkipOutcomes THEN "skip" ELSE "error"

\* a ProgressRecord: its key, ok and err_class; `fresh` tells a record made by
\* the run that holds it from one that run read from the ledger
Row(k, o) ==
    [key |-> k,
     ok |-> IF o = "ok" THEN 1 ELSE 0,
     err_class |-> ErrClass(o),
     fresh |-> TRUE]

\* an empty cell of the ledger as read_csv gives it back
NaN == 0 - 1

\* the key read from a line that ends inside its chain field: "<chain>|nan"
JunkKey == 0

\* classify_err_tail("") is "no_output", a class of a failed attempt
NoOutput == "error"

\* pd.read_csv(PROGRESS) and the backfill of err_class: the rows as an earlier
\* run left them, a row with ok = 1 labelled "ok", an empty err_class classified
\* from the (empty) err_tail
ReadCsv(disk_rows) ==
    [i \in 1..Len(disk_rows) |->
        [disk_rows[i] EXCEPT !.fresh = FALSE,
                             !.err_class = IF disk_rows[i].ok = 1 THEN "ok"
                                           ELSE IF @ = "" THEN NoOutput ELSE @]]

\* where the bytes that reached the disk end when to_csv is cut short: at the end
\* of a line, inside the key fields of a line, or after the key fields and before
\* the ok field
Tears == {"line_end", "in_key", "in_outcome"}

\* what is left of the line of record r
TornTail(r, t) ==
    IF t = "line_end" THEN <<>>
    ELSE <<[key |-> IF t = "in_key" THEN JunkKey ELSE r.key,
            ok |-> NaN, err_class |-> "", fresh |-> FALSE]>>

RECURSIVE KeysOf(_)
KeysOf(rs) == IF rs = <<>> THEN {} ELSE {Head(rs).key} \cup KeysOf(Tail(rs))

RowsOfKey(rs, k) == SelectSeq(rs, LAMBDA r : r.key = k)

\* the ledger file: absent, or its content (a header line and rows); `whole`
\* says the last to_csv ran to its end
NoFile == [exists |-> FALSE, header |-> FALSE, rows |-> <<>>, whole |-> FALSE]
FileOf(hdr, rs, w) == [exists |-> TRUE, header |-> hdr, rows |-> rs, whole |-> w]

Prefix(rs, n) == SubSeq(rs, 1, n)

\* prev = prev[prev["ok"].fillna(0).astype(int) == 1]
PrevAfterRetry(retry, disk_rows) ==
    IF retry THEN SelectSeq(disk_rows, LAMBDA r : r.ok = 1) ELSE disk_rows

\* rows = prev.to_dict("records")
RowsAtLoad(retry, disk_rows) == PrevAfterRetry(retry, disk_rows)

\* done = set(keys)
DoneAtLoad(retry, disk_rows) == KeysOf(PrevAfterRetry(retry, disk_rows))

\* if lock_path.exists() and not ALLOW_CONCURRENT: raise SystemExit(2)
LockBlocksNever(lk, allow) == FALSE

LockBlocks(lk, allow) == lk # NoLock /\ ~allow

\* files = files[:MAX_FILES] if MAX_FILES > 0
NumFiles(p) ==
    IF cfg[p].max_files > 0 /\ cfg[p].max_files < Len(files)
    THEN cfg[p].max_files ELSE Len(files)

\* if processed_this_run % BATCH_SIZE == 0
CheckpointDue(n) == n % BATCH_SIZE = 0

\* an event: what happened, to which process and key; for a contract its outcome,
\* whether the key was already processed in this run, and whether a completed
\* flush had already recorded it with ok = 1
ContractEvent(p, k, o, again, was_ok) ==
    [ev |-> "contract", p |-> p, key |-> k, outcome |-> o, again |-> again,
     was_ok |-> was_ok]
Event(e, p, k, o) ==
    [ev |-> e, p |-> p, key |-> k, outcome |-> o, again |-> FALSE, was_ok |-> FALSE]

CfgPool == [retry : BOOLEAN, allow : BOOLEAN, max_files : {0, 2}]
NoCfg == [retry |-> FALSE, allow |-> FALSE, max_files |-> 0]

Running(p) == pc[p] # "idle"

\* the memory of a process that is not running
Forget(p) ==
    /\ rows' = [rows EXCEPT ![p] = <<>>]
    /\ done' = [done EXCEPT ![p] = {}]
    /\ idx' = [idx EXCEPT ![p] = 1]
    /\ processed' = [processed EXCEPT ![p] = 0]
    /\ loaded' = [loaded EXCEPT ![p] = <<>>]
    /\ seen' = [seen EXCEPT ![p] = {}]
    /\ cfg' = [cfg EXCEPT ![p] = NoCfg]

OrchRest ==
    /\ progress = NoFile
    /\ lock = NoLock
    /\ pc = [p \in Procs |-> "idle"]
    /\ cfg = [p \in Procs |-> NoCfg]
    /\ rows = [p \in Procs |-> <<>>]
    /\ done = [p \in Procs |-> {}]
    /\ idx = [p \in Procs |-> 1]
    /\ processed = [p \in Procs |-> 0]
    /\ exit = [p \in Procs |-> NotRun]
    /\ loaded = [p \in Procs |-> <<>>]
    /\ seen = [p \in Procs |-> {}]
    /\ runs = 0
    /\ everOk = {}
    /\ last = Event("init", 0, 0, "")

OrchInit ==
    /\ files = [i \in 1..NKeys |-> i]
    /\ OrchRest

\* a run is started with some environment
StartRun(p, c) ==
    /\ pc[p] = "idle"
    /\ runs < MaxRuns
    /\ runs' = runs + 1
    /\ pc' = [pc EXCEPT ![p] = "check"]
    /\ cfg' = [cfg EXCEPT ![p] = c]
    /\ exit' = [exit EXCEPT ![p] = NotRun]
    /\ last' = Event("start", p, 0, "")
    /\ UNCHANGED <<diskVars, rows, done, idx, processed, loaded, seen, everOk>>

\* lines 771-781: the lock check
CheckLock(p) ==
    /\ pc[p] = "check"
    /\ IF LockBlocks(lock, cfg[p].allow)
       THEN /\ pc' = [pc EXCEPT ![p] = "idle"]
            /\ exit' = [exit EXCEPT ![p] = ExitLockConflict]
            /\ cfg' = [cfg EXCEPT ![p] = NoCfg]
            /\ last' = Event("lock_conflict", p, 0, "")
       ELSE /\ pc' = [pc EXCEPT ![p] = "lockwrite"]
            /\ last' = Event("lock_passed", p, 0, "")
            /\ UNCHANGED <<exit, cfg>>
    /\ UNCHANGED <<diskVars, rows, done, idx, processed, loaded, seen, runs, everOk>>

\* line 785: lock_path.write_text(pid ...)
WriteLock(p) ==
    /\ pc[p] = "lockwrite"
    /\ lock' = p
    /\ pc' = [pc EXCEPT ![p] = "load"]
    /\ last' = Event("lock_written", p, 0, "")
    /\ UNCHANGED <<files, progress, cfg, rows, done, idx, processed, exit, loaded,
                   seen, runs, everOk>>

\* lines 803-845: read the ledger; read_csv raises on a file without a header line
LoadLedger(p) ==
    /\ pc[p] = "load"
    /\ IF progress.exists /\ ~progress.header
       THEN /\ pc' = [pc EXCEPT ![p] = "finally_exc"]
            /\ last' = Event("load_raise", p, 0, "")
            /\ UNCHANGED <<rows, done, loaded>>
       ELSE /\ pc' = [pc EXCEPT ![p] = "loop"]
            /\ rows' = [rows EXCEPT ![p] = RowsAtLoad(cfg[p].retry, ReadCsv(progress.rows))]
            /\ done' = [done EXCEPT ![p] = DoneAtLoad(cfg[p].retry, ReadCsv(progress.rows))]
            /\ loaded' = [loaded EXCEPT ![p] = progress.rows]
            /\ last' = Event("load", p, 0, "")
    /\ UNCHANGED <<diskVars, cfg, idx, processed, exit, seen, runs,
                   everOk>>


\* line 852, past the last file: the final write follows
LoopEnd(p) ==
    /\ pc[p] = "loop"
    /\ idx[p] > NumFiles(p)
    /\ pc' = [pc EXCEPT ![p] = "final_open"]
    /\ last' = Event("loop_end", p, 0, "")
    /\ UNCHANGED <<diskVars, cfg, rows, done, idx, processed, exit, loaded, seen,
                   runs, everOk>>

\* lines 856-857: if key in done: continue
SkipDone(p) ==
    /\ pc[p] = "loop"
    /\ idx[p] <= NumFiles(p)
    /\ files[idx[p]] \in done[p]
    /\ idx' = [idx EXCEPT ![p] = idx[p] + 1]
    /\ last' = Event("skip_done", p, files[idx[p]], "")
    /\ UNCHANGED <<diskVars, pc, cfg, rows, done, processed, exit, loaded, seen,
                   runs, everOk>>

\* where the loop body goes after appending the record of outcome o, n being the
\* new processed_this_run: the skip records `continue` before the checkpoint test
AfterRecord(o, n) ==
    IF o \in SkipOutcomes THEN "loop"
    ELSE IF CheckpointDue(n) THEN "ckpt_open" ELSE "loop"

\* lines 859-1043: one contract, from reading its payload to its record
Contract(p, o) ==
    /\ pc[p] = "loop"
    /\ idx[p] <= NumFiles(p)
    /\ LET key == files[idx[p]]
       IN  /\ key \notin done[p]
           /\ seen' = [seen EXCEPT ![p] = seen[p] \cup {key}]
           /\ last' = ContractEvent(p, key, o, key \in seen[p], key \in everOk)
           /\ IF o \in RaiseOutcomes
              THEN /\ pc' = [pc EXCEPT ![p] = "finally_exc"]
                   /\ UNCHANGED <<rows, done, idx, processed>>
              ELSE /\ rows' = [rows EXCEPT ![p] = Append(rows[p], Row(key, o))]
                   /\ done' = [done EXCEPT ![p] = done[p] \cup {key}]
                   /\ processed' = [processed EXCEPT ![p] = processed[p] + 1]
                   /\ idx' = [idx EXCEPT ![p] = idx[p] + 1]
                   /\ pc' = [pc EXCEPT ![p] = AfterRecord(o, processed[p] + 1)]
    /\ UNCHANGED <<diskVars, cfg, exit, loaded, runs, everOk>>

InFlushOpen(p) == pc[p] \in {"ckpt_open", "final_open"}
InFlushWrite(p) == pc[p] \in {"ckpt_write", "final_write"}

\* to_csv opens PROGRESS for writing: the file is truncated
FlushOpen(p) ==
    /\ InFlushOpen(p)
    /\ progress' = FileOf(FALSE, <<>>, FALSE)
    /\ pc' = [pc EXCEPT ![p] = IF pc[p] = "ckpt_open" THEN "ckpt_write" ELSE "final_write"]
    /\ last' = Event("flush_open", p, 0, "")
    /\ UNCHANGED <<files, lock, cfg, rows, done, idx, processed, exit, loaded, seen,
                   runs, everOk>>

\* the header line, the first n records and a part t of the next one have reached
\* the disk
FlushPart(p, n, t) ==
    /\ InFlushWrite(p)
    /\ ~progress.header
    /\ n < Len(rows[p])
    /\ progress' = FileOf(TRUE, Prefix(rows[p], n) \o TornTail(rows[p][n + 1], t), FALSE)
    /\ last' = Event("flush_part", p, 0, "")
    /\ UNCHANGED <<files, lock, procVars, loaded, seen, runs, everOk>>

\* to_csv has written everything and closed the file
FlushClose(p) ==
    /\ InFlushWrite(p)
    /\ progress' = FileOf(TRUE, rows[p], TRUE)
    /\ everOk' = everOk \cup {k \in Keys : \E i \in 1..Len(rows[p]) :
                                  rows[p][i].key = k /\ rows[p][i].ok = 1}
    /\ pc' = [pc EXCEPT ![p] = IF pc[p] = "ckpt_write" THEN "loop" ELSE "finally_ok"]
    /\ last' = Event(IF pc[p] = "ckpt_write" THEN "checkpoint" ELSE "final_write", p, 0, "")
    /\ UNCHANGED <<files, lock, cfg, rows, done, idx, processed, exit, loaded, seen,
                   runs>>

\* lines 1066-1072: finally: remove the lock file if it exists
Finally(p) ==
    /\ pc[p] \in {"finally_ok", "finally_exc"}
    /\ lock' = NoLock
    /\ pc' = [pc EXCEPT ![p] = "idle"]
    /\ exit' = [exit EXCEPT ![p] = IF pc[p] = "finally_ok" THEN ExitOk ELSE ExitTraceback]
    /\ last' = Event(IF pc[p] = "finally_ok" THEN "exit_ok" ELSE "exit_traceback", p, 0, "")
    /\ Forget(p)
    /\ UNCHANGED <<files, progress, runs, everOk>>

\* the process is killed (SIGKILL): nothing of main() runs any more
Kill(p) ==
    /\ Running(p)
    /\ pc' = [pc EXCEPT ![p] = "idle"]
    /\ exit' = [exit EXCEPT ![p] = ExitKilled]
    /\ last' = Event("kill", p, 0, pc[p])
    /\ Forget(p)
    /\ UNCHANGED <<diskVars, runs, everOk>>

\* the operator removes a stale lock file by hand while no run is active
RemoveStaleLock ==
    /\ \A p \in Procs : ~Running(p)
    /\ lock # NoLock
    /\ lock' = NoLock
    /\ last' = Event("unblock", 0, 0, "")
    /\ UNCHANGED <<files, progress, procVars, loaded, seen, runs, everOk>>


(***************************************************************************)
(* Specifications.                                                         *)
(*   Spec      runs of the orchestrator one after the other, each of which *)
(*             may be killed at any point                                  *)
(*   SpecConc  runs started at any time by two operators                   *)
(*   SpecSolo  the runs of Spec on a cache of one contract                 *)
(*   SpecPick  _pick_solc_for_pragma applied to every input of the pools   *)
(*   SpecFind  _find_solc_binary applied to every state of the roots       *)
(*   SpecBind  ensure_vendor_links applied twice to every workdir          *)
(*   SpecClassify  classify_err_tail applied to every tail                 *)
(*   SpecAttempt  the attempts of up to MaxAttRuns runs over NContracts    *)
(*             contracts, the analyzer and solc-select being external      *)
(*   SpecMaterialize  write_contract_workdir applied to every payload,     *)
(*             on a new workdir and on one an earlier attempt left         *)
(*   SpecPickCap, SpecPickAny  the solver with a ceiling; the solver on    *)
(*             expressions of no recognised form                           *)
(*   SpecAttemptOutput  the attempts on one contract, for every output of  *)
(*             the analyzer                                                *)
(*   SpecCapped  capped runs repeated for ever, each run to its end        *)
(***************************************************************************)
Others == UNCHANGED <<pickVars, findVars, workVars, classVars, attVars>>

Init == PickIdle /\ FindIdle /\ WorkIdle /\ ClassifyIdle /\ AttemptIdle /\ OrchInit

\* the one process of the sequential runs
Main == 1

Next ==
    \/ \E c \in CfgPool : StartRun(Main, c) /\ Others
    \/ CheckLock(Main) /\ Others
    \/ WriteLock(Main) /\ Others
    \/ LoadLedger(Main) /\ Others
    \/ LoopEnd(Main) /\ Others
    \/ SkipDone(Main) /\ Others
    \/ \E o \in Outcomes : Contract(Main, o) /\ Others
    \/ FlushOpen(Main) /\ Others
    \/ \E n \in 0..MaxRows, t \in Tears : FlushPart(Main, n, t) /\ Others
    \/ FlushClose(Main) /\ Others
    \/ Finally(Main) /\ Others
    \/ Kill(Main) /\ Others
    \/ RemoveStaleLock /\ Others

Spec == Init /\ [][Next]_vars

\* two operators, a cache of one contract
InitConc ==
    /\ PickIdle /\ FindIdle /\ WorkIdle /\ ClassifyIdle /\ AttemptIdle
    /\ files = <<1>>
    /\ OrchRest

NextConc ==
    \/ \E p \in Procs, c \in CfgPool : StartRun(p, c) /\ Others
    \/ \E p \in Procs : CheckLock(p) /\ Others
    \/ \E p \in Procs : WriteLock(p) /\ Others
    \/ \E p \in Procs : LoadLedger(p) /\ Others
    \/ \E p \in Procs : LoopEnd(p) /\ Others
    \/ \E p \in Procs : SkipDone(p) /\ Others
    \/ \E p \in Procs, o \in Outcomes : Contract(p, o) /\ Others
    \/ \E p \in Procs : FlushOpen(p) /\ Others
    \/ \E p \in Procs, n \in 0..MaxRows, t \in Tears : FlushPart(p, n, t) /\ Others
    \/ \E p \in Procs : FlushClose(p) /\ Others
    \/ \E p \in Procs : Finally(p) /\ Others
    \/ \E p \in Procs : Kill(p) /\ Others
    \/ RemoveStaleLock /\ Others

SpecConc == InitConc /\ [][NextConc]_vars

\* runs one after the other on a cache of one contract
InitSolo ==
    /\ PickIdle /\ FindIdle /\ WorkIdle /\ ClassifyIdle /\ AttemptIdle
    /\ files = <<1>>
    /\ OrchRest

SpecSolo == InitSolo /\ [][Next]_vars

InitBind == PickIdle /\ FindIdle /\ BindInit /\ ClassifyIdle /\ AttemptIdle /\ OrchInit

NextBind == Bind /\ UNCHANGED <<pickVars, findVars, diskVars, procVars, histVars, classVars, attVars>>

SpecBind == InitBind /\ [][NextBind]_vars

InitMaterialize == PickIdle /\ FindIdle /\ MaterializeInit /\ ClassifyIdle /\ AttemptIdle /\ OrchInit

NextMaterialize == Materialize /\ UNCHANGED <<pickVars, findVars, diskVars, procVars, histVars, classVars, attVars>>

SpecMaterialize == InitMaterialize /\ [][NextMaterialize]_vars

InitClassify == PickIdle /\ FindIdle /\ WorkIdle /\ ClassifyInit /\ AttemptIdle /\ OrchInit

NextClassify == Classify /\ UNCHANGED <<pickVars, findVars, workVars, diskVars, procVars, histVars, attVars>>

SpecClassify == InitClassify /\ [][NextClassify]_vars

InitAttempt == PickIdle /\ FindIdle /\ WorkIdle /\ ClassifyIdle /\ AttemptInit /\ OrchInit

NextAttempt ==
    \/ StartAttempts /\ UNCHANGED <<pickVars, findVars, workVars, diskVars, procVars, histVars, classVars>>
    \/ SkipAttempt /\ UNCHANGED <<pickVars, findVars, workVars, diskVars, procVars, histVars, classVars>>
    \/ Launch /\ UNCHANGED <<pickVars, findVars, workVars, diskVars, procVars, histVars, classVars>>
    \/ Wait /\ UNCHANGED <<pickVars, findVars, workVars, diskVars, procVars, histVars, classVars>>
    \/ AnalyzerExit /\ UNCHANGED <<pickVars, findVars, workVars, diskVars, procVars, histVars, classVars>>
    \/ AttemptRaises /\ UNCHANGED <<pickVars, findVars, workVars, diskVars, procVars, histVars, classVars>>
    \/ EndAttempts /\ UNCHANGED <<pickVars, findVars, workVars, diskVars, procVars, histVars, classVars>>

SpecAttempt == InitAttempt /\ [][NextAttempt]_vars

InitPick == PickInit /\ FindIdle /\ WorkIdle /\ ClassifyIdle /\ AttemptIdle /\ OrchInit

NextPick == Pick /\ UNCHANGED <<findVars, workVars, diskVars, procVars, histVars, classVars, attVars>>

SpecPick == InitPick /\ [][NextPick]_vars

InitFind == PickIdle /\ FindInit /\ WorkIdle /\ ClassifyIdle /\ AttemptIdle /\ OrchInit

NextFind ==
    \/ Find /\ UNCHANGED <<pickVars, workVars, diskVars, procVars, histVars, classVars, attVars>>
    \/ BuildCmd /\ UNCHANGED <<pickVars, workVars, diskVars, procVars, histVars, classVars, attVars>>

SpecFind == InitFind /\ [][NextFind]_vars


(***************************************************************************)
(* Claims about _pick_solc_for_pragma (checked under SpecPick).            *)
(***************************************************************************)
\* the position of a version in the order of versions
VersionRank(v) == v[1] * 10000 + v[2] * 100 + v[3]

IsSupported(e) == MatchExact(e) \/ MatchCaret(e) \/ MatchRange(e) \/ MatchLower(e)

\* the versions an expression of a supported form is satisfied by
Satisfying(e) ==
    LET a == e.terms[1].v
        InHalfOpen(w, lo, hi) == VersionRank(lo) <= VersionRank(w) /\ VersionRank(w) < VersionRank(hi)
    IN  IF MatchExact(e) THEN {a}
        ELSE IF MatchCaret(e) THEN
            {w \in Versions :
                IF a[1] > 0 THEN InHalfOpen(w, a, <<a[1] + 1, 0, 0>>)
                ELSE IF a[2] > 0 THEN InHalfOpen(w, a, <<0, a[2] + 1, 0>>)
                ELSE InHalfOpen(w, a, <<0, 0, a[3] + 1>>)}
        ELSE IF MatchRange(e) THEN {w \in Versions : InHalfOpen(w, a, e.terms[2].v)}
        ELSE {w \in Versions : VersionRank(a) <= VersionRank(w)}

\* C1: for an expression of a supported form and no ceiling, the pick is None
\* exactly when no installed version satisfies the expression, and otherwise it
\* is the greatest installed version that satisfies it.
C1_PickIsMaxSatisfying ==
    (picked # Unset /\ max_solc = None /\ IsSupported(pragma_expr)) =>
        LET sat == installed \cap Satisfying(pragma_expr)
        IN  IF sat = {} THEN picked = None
            ELSE /\ picked \in sat
                 /\ \A w \in sat : VersionRank(w) <= VersionRank(picked)

\* a caret expression ^0.0.z picked 0.0.z although a higher version is installed
C1_Witness ==
    /\ picked \notin {Unset, None}
    /\ MatchCaret(pragma_expr)
    /\ pragma_expr.terms[1].v[1] = 0 /\ pragma_expr.terms[1].v[2] = 0
    /\ \E w \in installed : VersionRank(w) > VersionRank(picked)


(***************************************************************************)
(* Claims about _find_solc_binary (checked under SpecFind).                *)
(***************************************************************************)
\* a regular file under an existing root whose name, or whose directory's name,
\* carries the requested version
IsPinnedFile(x) ==
    /\ x \in Paths
    /\ x.v = ver
    /\ roots_exist[x.root]
    /\ KindAt(fs, x) = "file"

\* the target of a symbolic link that sits at a candidate location of the
\* requested version
IsPinnedLinkTarget(x) ==
    /\ x = AmbientSolc
    /\ \E q \in Paths : q.v = ver /\ roots_exist[q.root] /\ KindAt(fs, q) = "link"

\* C10 as stated: the result is nothing or the path of an existing file under a
\* solc-select root that carries exactly the requested version, and --solc is
\* passed only with such a path.
C10_ResultIsPinnedPathUnderRoot ==
    /\ solc_bin # UnsetPath => (solc_bin = NonePath \/ IsPinnedFile(solc_bin))
    /\ cmd_solc # UnsetPath => (cmd_solc = NonePath \/ IsPinnedFile(cmd_solc))

\* C10 amended: the result is nothing, or a version-carrying regular file under
\* an existing root, or the target of a symbolic link found at a version-carrying
\* candidate location; there is no other way to the solc of the ambient PATH,
\* and --solc is passed only with the result.
C10_ResultIsPinnedCandidateResolved ==
    /\ solc_bin # UnsetPath =>
          \/ solc_bin = NonePath
          \/ IsPinnedFile(solc_bin)
          \/ IsPinnedLinkTarget(solc_bin)
    /\ cmd_solc # UnsetPath =>
          \/ cmd_solc = NonePath
          \/ cmd_solc = solc_bin /\ (IsPinnedFile(cmd_solc) \/ IsPinnedLinkTarget(cmd_solc))

\* --solc is passed with <dir>/solc of the second root: the directory itself,
\* an earlier candidate, was passed over
C10_Witness ==
    /\ cmd_solc \in Paths
    /\ cmd_solc.root = 2
    /\ cmd_solc.slot \in {5, 6}
    /\ KindAt(fs, Path(2, ParentSlot(cmd_solc.slot), ver)) = "dir"


(***************************************************************************)
(* The orchestrator: resume, ledger, lock, failures, checkpoints.          *)
(***************************************************************************)
\* the rows of the ledger p read at startup that carry key k
LoadedRowsOf(p, k) == RowsOfKey(loaded[p], k)

\* C2: a key is processed only if it is absent from the ledger loaded at startup,
\* or retry mode is set and its loaded row has ok # 1; a key that a completed
\* flush recorded with ok = 1 is never processed again, and no key is processed
\* twice within one run
C2_NoReprocessing ==
    last.ev = "contract" =>
        /\ ~last.was_ok
        /\ ~last.again
        /\ \/ LoadedRowsOf(last.p, last.key) = <<>>
           \/ /\ cfg[last.p].retry
              /\ \A i \in DOMAIN LoadedRowsOf(last.p, last.key) :
                     LoadedRowsOf(last.p, last.key)[i].ok # 1

\* a terminal record: ok = 1, or ok = 0 with an err_class
Terminal(r) == r.ok = 1 \/ (r.ok = 0 /\ r.err_class # "")

\* C3: once a run without a max-count cap has run to completion, whatever runs
\* and kills came before it, the ledger holds a terminal record for every key of
\* the source cache
C3_CompletedRunCoversCache ==
    (last.ev = "final_write" /\ cfg[last.p].max_files = 0) =>
        \A i \in DOMAIN files :
            \E j \in DOMAIN progress.rows :
                /\ progress.rows[j].key = files[i]
                /\ Terminal(progress.rows[j])

\* C4: after every checkpoint flush and after the final write the ledger on disk
\* has at most one row per key, and the row of a key attempted in this run is
\* the one of this attempt
C4_OneRowPerKeyNewest ==
    last.ev \in {"checkpoint", "final_write"} =>
        /\ \A k \in KeysOf(progress.rows) : Len(RowsOfKey(progress.rows, k)) = 1
        /\ \A k \in seen[last.p] :
               \A i \in DOMAIN RowsOfKey(progress.rows, k) :
                   RowsOfKey(progress.rows, k)[i].fresh

\* C5: a run that finds the lock file at its start with the override unset exits
\* with a non-zero status before processing any contract and leaves the lock
\* file and the ledger as they are; with the override set, or without a lock
\* file, the run proceeds
C5_LockConflictIsFatal ==
    [][(pc[Main] = "check" /\ pc'[Main] # "check" /\ exit'[Main] # ExitKilled) =>
          IF lock # NoLock /\ ~cfg[Main].allow
          THEN /\ pc'[Main] = "idle"
               /\ exit'[Main] \in NonZeroExits
               /\ lock' = lock
               /\ progress' = progress
               /\ seen[Main] = {} /\ processed[Main] = 0
          ELSE pc'[Main] = "lockwrite"]_vars

\* a run has just been refused by a lock file, a ledger being there
C5_Witness ==
    /\ last.ev = "lock_conflict"
    /\ exit[Main] = ExitLockConflict
    /\ lock # NoLock
    /\ progress.exists

\* past lock acquisition: the run reads and writes the ledger
PastLock(p) ==
    pc[p] \in {"load", "loop", "ckpt_open", "ckpt_write", "final_open", "final_write"}

\* C6: no two runs with the override unset are past lock acquisition at once
C6_MutualExclusion ==
    \A p, q \in Procs :
        (p # q /\ ~cfg[p].allow /\ ~cfg[q].allow) => ~(PastLock(p) /\ PastLock(q))

\* the records run p made itself for key k
FreshRowsOf(p, k) == SelectSeq(rows[p], LAMBDA r : r.key = k /\ r.fresh)

\* C7: a contract that fails at any stage gets exactly one record with ok = 0 and
\* the loop goes on
C7_FailureBecomesOneRecord ==
    (last.ev = "contract" /\ last.outcome # "ok") =>
        /\ pc[last.p] \in {"loop", "ckpt_open"}
        /\ Len(FreshRowsOf(last.p, last.key)) = 1
        /\ FreshRowsOf(last.p, last.key)[1].ok = 0

\* the keys run p has a record of its own for while the ledger has no row of them
Unflushed(p) ==
    {k \in Keys : FreshRowsOf(p, k) # <<>> /\ k \notin KeysOf(progress.rows)}

\* C8: between two contracts, at most a batch of this run's records is missing
\* from the ledger on disk
C8_UnflushedAtMostBatch ==
    \A p \in Procs : pc[p] = "loop" => Cardinality(Unflushed(p)) <= BATCH_SIZE

\* C9: after a kill at any point the ledger on disk, if there is one, is a
\* complete table: a header line and every line of the last flush
C9_LedgerWholeAfterKill ==
    (last.ev = "kill" /\ progress.exists) => (progress.header /\ progress.whole)


(***************************************************************************)
(* _pick_solc_for_pragma with a ceiling (MAX_SOLC), checked under          *)
(* SpecPickCap: every expression of a supported form, every installed set, *)
(* every ceiling.                                                          *)
(***************************************************************************)
SupportedExprPool == {e \in ExprPool : IsSupported(e)}

PickCapInit ==
    /\ pragma_expr \in SupportedExprPool
    /\ installed \in InstalledPool
    /\ max_solc \in Versions
    /\ picked = Unset

InitPickCap == PickCapInit /\ FindIdle /\ WorkIdle /\ ClassifyIdle /\ AttemptIdle /\ OrchInit

SpecPickCap == InitPickCap /\ [][NextPick]_vars

\* some installed version is <= the ceiling
SomeUnderCeiling == \E v \in installed : VersionRank(v) <= VersionRank(max_solc)

\* C11 (as claimed): for every supported form, with a ceiling and an installed
\* version <= ceiling the pick is never above the ceiling; with no installed
\* version <= ceiling the pick is the pick without ceiling
C11_CeilingHonoured ==
    (picked # Unset /\ max_solc # None) =>
        IF SomeUnderCeiling
        THEN picked # None => VersionRank(picked) <= VersionRank(max_solc)
        ELSE picked = _pick_solc_for_pragma(pragma_expr, installed, None)

\* C11 (amended): the same for the caret, range and lower-bound forms; for the
\* exact form the ceiling plays no part, the pick is the named version exactly
\* when it is installed
C11_CeilingHonouredBroadForms ==
    (picked # Unset /\ max_solc # None) =>
        IF MatchExact(pragma_expr)
        THEN picked = IF pragma_expr.terms[1].v \in installed
                      THEN pragma_expr.terms[1].v ELSE None
        ELSE IF SomeUnderCeiling
        THEN picked # None => VersionRank(picked) <= VersionRank(max_solc)
        ELSE picked = _pick_solc_for_pragma(pragma_expr, installed, None)

\* the ceiling decided a pick: a version at or under the ceiling was picked for a
\* lower-bound expression although a higher installed version satisfies it
C11_Witness ==
    /\ picked \notin {Unset, None}
    /\ max_solc # None
    /\ MatchLower(pragma_expr)
    /\ VersionRank(picked) <= VersionRank(max_solc)
    /\ \E w \in installed \cap Satisfying(pragma_expr) : VersionRank(w) > VersionRank(max_solc)

\* C12: with a ceiling, whenever some installed version satisfies the expression
\* a version is picked
C12_CeilingNeverEmptiesPick ==
    (picked # Unset /\ max_solc # None /\ IsSupported(pragma_expr)) =>
        (installed \cap Satisfying(pragma_expr) # {} => picked # None)


(***************************************************************************)
(* C14.  Binding a workdir twice is binding it once: the second call of    *)
(* ensure_vendor_links leaves every entry of the workdir as the first call *)
(* left it (it creates nothing), and no call replaces or retargets an      *)
(* entry that was there before it: a file, a directory or a symbolic link, *)
(* resolving or dangling, the entries written from the bundle included.    *)
(***************************************************************************)
C14_BindingIsIdempotent ==
    /\ binds = 2 => wd = prev_wd
    /\ \A n \in Names : prev_wd[n] # Absent => wd[n] = prev_wd[n]

\* the first call created links next to a directory and a file of the bundle,
\* and the second call has run
C14_Witness ==
    /\ binds = 2
    /\ deps.vendor /\ deps.oz_vendor /\ ~deps.oz_nm
    /\ wd["src"] = Dir
    /\ wd["lib"] = FileWith("x")
    /\ wd["contracts"] = Link("contract_dir")
    /\ wd[OzContracts] = Link(VendorOz)


(***************************************************************************)
(* C13.  For every Standard-JSON payload, plain, wrapped in double braces  *)
(* or quoted as a JSON string, whose compilationTarget names one of its    *)
(* source paths, write_contract_workdir returns workdir/<that path> and    *)
(* the file there holds exactly the content supplied for that source, with *)
(* no import rewritten.                                                    *)
(***************************************************************************)
TargetNamesSource(r) == \E i \in 1..Len(r.sources) : r.sources[i].path = r.target

SuppliedFor(r, p) == (CHOOSE x \in {r.sources[i] : i \in 1..Len(r.sources)} : x.path = p).content

C13_TargetIsEntryWithExactContent ==
    (mats = 1 /\ Parses(raw) /\ TargetNamesSource(raw)) =>
        /\ entry_path = Norm(raw.target)
        /\ wd[RealName(wd, entry_path)] = FileWith(SuppliedFor(raw, raw.target))


(***************************************************************************)
(* C15.  A non-empty error tail that reports an unresolved import ("file   *)
(* not found", "source" with "not found", or "not found" with "import")    *)
(* and names OpenZeppelin is classified openzeppelin_import, never         *)
(* missing_import; one that reports an unresolved import without naming    *)
(* OpenZeppelin is classified missing_import.                              *)
(***************************************************************************)
ReportsUnresolvedImport(tail) ==
    \/ In("file not found", tail)
    \/ In("source", tail) /\ In("not found", tail)
    \/ In("not found", tail) /\ In("import", tail)

NamesOpenZeppelin(tail) == In("@openzeppelin", tail) \/ In("openzeppelin", tail)

ImportClassOf(tail) ==
    IF NamesOpenZeppelin(tail) THEN "openzeppelin_import" ELSE "missing_import"

C16_OkIffThisAttemptLeftJson ==
    \A c \in Contracts : rec[c].ran => (rec[c].ok = 1 <=> rec[c].left_json)

(***************************************************************************)
(* C17.  After any attempt whose record has ok = 0 (analyzer failure,      *)
(* exception or skip) no file, empty or partial, exists at the contract's  *)
(* JSON artifact path.                                                     *)
(***************************************************************************)
C17_NoArtifactAfterFailure ==
    \A c \in Contracts : (rec[c].made /\ rec[c].ok = 0) => json[c] = "absent"

(***************************************************************************)
(* C18.  An analyzer that does not finish within the analysis timeout is   *)
(* not waited for any longer: the orchestrator records a timeout and goes  *)
(* on, so that it is never inside subprocess.run once the timeout has      *)
(* passed.                                                                 *)
(***************************************************************************)
AnalysisTimeout == 1

C18_WaitEndsAtTimeout == apc = "waiting" => elapsed <= AnalysisTimeout

(***************************************************************************)
(* C19.  --solc-args is on the analyzer's command line only if a version   *)
(* was picked for the contract and that version is >= 0.6.0; never when no *)
(* version was picked or the pick is below the floor.                      *)
(***************************************************************************)
C19_SolcArgsOnlyAboveFloor ==
    (apc = "waiting" /\ cmd.solc_args) =>
        /\ profile[cur].picked # NoPick
        /\ TupleLeq(ArgsFloor, _vtuple(profile[cur].picked))

(***************************************************************************)
(* C20.  The compiler a contract is analyzed with does not depend on which *)
(* other contracts were processed before it: in two runs in which          *)
(* solc-select did what it was asked for the contract, the contract's      *)
(* analyzer runs under the same compiler; the compiler made active for an  *)
(* earlier contract never decides the compiler of a contract with no pick. *)
(***************************************************************************)
C20_CompilerIndependentOfOrder ==
    \A c \in Contracts :
        (rec[c].ran /\ ~rec[c].use_failed /\ prev_compiler[c] # None) =>
            rec[c].compiler = prev_compiler[c]

(***************************************************************************)
(* SpecPickAny: _pick_solc_for_pragma applied directly (not through main,  *)
(* which never calls it without a pragma) to the empty expression, to      *)
(* expressions none of the four regular expressions matches, and to an     *)
(* empty installed set; every installed set, with and without a ceiling.   *)
(***************************************************************************)
\* bounds written without a patch level, as in ">=0.6.0 <0.8.0"
RoundVersions == {v \in Versions : v[3] = 0}

\* ">=a <b <c": more than two bounds
Expr3(v1, v2, v3) ==
    [terms |-> <<Term(">=", v1), Term("<", v2), Term("<", v3)>>, sep |-> " "]

\* comma-compound, <= as the upper bound, alternation
OtherTwoTermShapes == {<<">=", ",", "<">>, <<">=", " ", "<=">>, <<"^", "||", "^">>}

OtherExprPool ==
    {Expr1(op, v) : op \in {">", "<", "<=", "~"}, v \in Versions}
    \cup {Expr2(sh[1], v1, sh[2], sh[3], v2) :
            sh \in OtherTwoTermShapes, v1 \in RoundVersions, v2 \in RoundVersions}
    \cup {Expr3(v1, v2, v2) : v1 \in RoundVersions, v2 \in RoundVersions}

PickAnyInit ==
    /\ \/ /\ pragma_expr \in OtherExprPool \cup {NoExpr}
          /\ installed \in InstalledPool
       \/ /\ pragma_expr \in SupportedExprPool
          /\ installed = {}
    /\ max_solc \in Versions \cup {None}
    /\ picked = Unset

\* _pick_solc_for_pragma(pragma_expr, installed, max_solc), called directly
PickAny ==
    /\ picked = Unset
    /\ picked' = _pick_solc_for_pragma(pragma_expr, installed, max_solc)
    /\ UNCHANGED <<pragma_expr, installed, max_solc>>

InitPickAny == PickAnyInit /\ FindIdle /\ WorkIdle /\ ClassifyIdle /\ AttemptIdle /\ OrchInit

NextPickAny == PickAny /\ UNCHANGED <<findVars, workVars, diskVars, procVars, histVars, classVars, attVars>>

SpecPickAny == InitPickAny /\ [][NextPickAny]_vars

\* the four forms the solver understands: exact, caret, lower bound, range
OfRecognisedForm(e) ==
    \/ Len(e.terms) = 1 /\ e.terms[1].op \in {"", "=", "^", ">="}
    \/ /\ Len(e.terms) = 2 /\ e.sep = " "
       /\ e.terms[1].op = ">=" /\ e.terms[2].op = "<"

\* C27: for every expression that is empty or of none of the four recognised
\* forms (a lone >, <, <= or ~ bound, a comma-compound or <=-bounded pair, an
\* alternation, three bounds), and for every expression when nothing is
\* installed, with or without a ceiling, the solver returns no version, and
\* the call changes nothing but its result.
C27_UnrecognisedFormsPickNothing ==
    [][ (picked = Unset /\ picked' # Unset) =>
            /\ UNCHANGED <<pragma_expr, installed, max_solc, findVars, workVars,
                           diskVars, procVars, histVars, classVars, attVars>>
            /\ (~OfRecognisedForm(pragma_expr) \/ installed = {}) => picked' = None ]_vars

\* a comma-compound pair was rejected although an installed version lies
\* between its bounds and under the ceiling
C27_Witness ==
    /\ picked = None
    /\ Len(pragma_expr.terms) = 2 /\ pragma_expr.sep = ","
    /\ max_solc # None
    /\ \E v \in installed :
          /\ VersionRank(pragma_expr.terms[1].v) <= VersionRank(v)
          /\ VersionRank(v) < VersionRank(pragma_expr.terms[2].v)
          /\ VersionRank(v) <= VersionRank(max_solc)

\* C28: whenever the analyzer was invoked and the record states a picked
\* version v, the analyzer ran with compiler v (through its pinned binary or
\* through the version solc-select has active); a failed or timed-out switch
\* with no pinned binary never ends in an analysis recorded under v.
C28_RecordedPickIsCompilerUsed ==
    \A c \in Contracts :
        (rec[c].ran /\ rec[c].solc_picked # NoPick) => rec[c].compiler = rec[c].solc_picked

(***************************************************************************)
(* SpecAttemptOutput: the attempts of main() on one analyzable contract,   *)
(* for every output of the analyzer (the other contract takes a skip       *)
(* branch).                                                                *)
(***************************************************************************)
AttemptOutputInit ==
    /\ profile \in {f \in [Contracts -> ProfilesPrinting(AnalyzerOutputs)] :
                        /\ f[1].skip = "none"
                        /\ \A c \in Contracts \ {1} : f[c].skip # "none"}
    /\ pinned \in SUBSET AttVersions
    /\ active \in AttVersions
    /\ todo = {}
    /\ apc = "stopped"
    /\ cur = 0
    /\ cmd = NoCmd
    /\ elapsed = 0
    /\ json = [c \in Contracts |-> "absent"]
    /\ rec = [c \in Contracts |-> NoRec]
    /\ prev_compiler = [c \in Contracts |-> None]
    /\ att_runs = 0

InitAttemptOutput == PickIdle /\ FindIdle /\ WorkIdle /\ ClassifyIdle /\ AttemptOutputInit /\ OrchInit

SpecAttemptOutput == InitAttemptOutput /\ [][NextAttempt]_vars

\* the closed set of values of err_class
Taxonomy ==
    {"ok", "no_output", "missing_import", "openzeppelin_import", "solc_version_mismatch",
     "solc_missing", "solc_combined_json_flag", "crytic_unknown_file", "slither_error",
     "skip_old_pragma", "skip_missing_exact_solc", "exception", "other"}

\* C25: every record's err_class is in the closed taxonomy, and a failed
\* attempt in which the analyzer printed nothing on stdout and stderr and
\* left no JSON artifact is recorded with err_class = no_output.
C25_SilentFailureIsNoOutput ==
    \A c \in Contracts :
        rec[c].made =>
            /\ rec[c].err_class \in Taxonomy
            /\ (rec[c].ran /\ rec[c].ok = 0 /\ ~rec[c].left_json /\ profile[c].output = {})
                    => rec[c].err_class = "no_output"

\* C29: in every row, ok = 1 exactly when err_class = "ok" and exactly when
\* json_path is non-empty; every skip row and every exception row has ok = 0,
\* an empty json_path and a negative returncode (-2, -3 or -999).
C29_OkMarksAgree ==
    \A c \in Contracts :
        rec[c].made =>
            /\ rec[c].ok = 1 <=> rec[c].err_class = "ok"
            /\ rec[c].ok = 1 <=> rec[c].json_path
            /\ ~rec[c].ran =>
                    /\ rec[c].ok = 0 /\ ~rec[c].json_path
                    /\ rec[c].returncode \in {0 - 2, 0 - 3, 0 - 999}

(***************************************************************************)
(* Claims about the files write_contract_workdir writes and the entry it   *)
(* returns (checked under SpecMaterialize).                                *)
(***************************************************************************)
\* C21: for every multi-file bundle and every source key, absolute keys and
\* keys with backslashes or ".." segments included, every file is written
\* inside the contract's own workdir: nothing is written outside it or into
\* the workdir of another contract.
C21_WritesStayInsideWorkdir ==
    (mats = 1 /\ Parses(raw)) => wd[Outside] = Absent

\* the .sol files of the workdir written from the bundle
BundleSolFiles(r) ==
    {RealName(wd, Norm(r.sources[i].path)) : i \in 1..Len(r.sources)} \cap SourceNames

\* fewest path segments, then largest size, then path order
Precedes(a, b) ==
    \/ Depth(a) < Depth(b)
    \/ Depth(a) = Depth(b) /\ SizeOf(wd[a].data) > SizeOf(wd[b].data)
    \/ Depth(a) = Depth(b) /\ SizeOf(wd[a].data) = SizeOf(wd[b].data) /\ NameRank(a) <= NameRank(b)

DeclaredTargetWritten(r) ==
    r.target # NoTarget /\ wd[RealName(wd, Norm(r.target))].kind = "file"

\* C22: when a multi-file bundle with a .sol file was written and no declared
\* target names an existing written file, the entry returned is one of the
\* .sol files written from that bundle, the first in the order (segments
\* ascending, size descending, path ascending); never a file of a dependency
\* binding or of an earlier attempt.
C22_FallbackEntryIsFromBundle ==
    (/\ mats = 1 /\ Parses(raw) /\ entry_path # Raised
     /\ BundleSolFiles(raw) # {}
     /\ ~DeclaredTargetWritten(raw)) =>
        /\ entry_path \in BundleSolFiles(raw)
        /\ \A b \in BundleSolFiles(raw) : Precedes(entry_path, b)

\* C23: for every payload classified as multi-file from which no .sol file
\* is extracted, with or without a declared target, the call does not fail
\* and returns workdir/contract.sol holding the import-rewritten raw payload.
C23_NoSolFallsBackToContractSol ==
    (/\ mats = 1 /\ Parses(raw)
     /\ \A i \in 1..Len(raw.sources) : raw.sources[i].path = Readme) =>
        /\ entry_path = "contract.sol"
        /\ wd["contract.sol"] = FileWith(rewrite_known_imports(RawOf(raw)))

\* C24: after a unit was materialized, each of contracts, src and lib is an
\* entry of the workdir (a directory of the bundle or a symbolic link back
\* to the workdir), and @openzeppelin/contracts is bound to the npm install
\* whenever that provides it, the npm install being probed before the
\* vendored clone; whether or not the vendor directory exists.
C24_PrefixesAndPackageBound ==
    (mats = 1 /\ entry_path # Raised) =>
        /\ \A n \in Prefixes : wd[n] \in {Dir, Link("contract_dir")}
        /\ deps.oz_nm => wd[OzContracts] = Link(NpmOz)

(***************************************************************************)
(* Claims about the ledger over several runs (C26 under Spec, C30 under    *)
(* SpecCapped).                                                            *)
(***************************************************************************)
\* C26: over all flushes of all runs on one output path (runs that retry
\* failures, capped runs and runs killed after a flush included), a key that
\* is in the ledger on disk is never missing from it after a later flush: a
\* completed flush of a run holds every contract key the ledger held, in a
\* line written to its end, when that run read it.
RecordedKeys(rs) == {rs[i].key : i \in {j \in 1..Len(rs) : rs[j].ok \in {0, 1}}} \cap Keys

C26_FlushKeepsLedgerKeys ==
    last.ev \in {"checkpoint", "final_write"} =>
        RecordedKeys(loaded[last.p]) \subseteq KeysOf(progress.rows)

(***************************************************************************)
(* SpecCapped: the operator runs main() with MAX_FILES = CapN again and    *)
(* again on a cache of more than CapN contracts; every run goes to its end *)
(* (no kill, no exception outside the try block).                          *)
(***************************************************************************)
CapN == 2

CappedCfg == [retry |-> FALSE, allow |-> FALSE, max_files |-> CapN]

\* a run is started once more, any number of times
StartRunAgain(p, c) ==
    /\ pc[p] = "idle"
    /\ pc' = [pc EXCEPT ![p] = "check"]
    /\ cfg' = [cfg EXCEPT ![p] = c]
    /\ exit' = [exit EXCEPT ![p] = NotRun]
    /\ last' = Event("start", p, 0, "")
    /\ UNCHANGED <<diskVars, rows, done, idx, processed, loaded, seen, runs, everOk>>

NextCapped ==
    \/ StartRunAgain(Main, CappedCfg) /\ Others
    \/ CheckLock(Main) /\ Others
    \/ WriteLock(Main) /\ Others
    \/ LoadLedger(Main) /\ Others
    \/ LoopEnd(Main) /\ Others
    \/ SkipDone(Main) /\ Others
    \/ \E o \in SkipOutcomes \cup TryOutcomes : Contract(Main, o) /\ Others
    \/ FlushOpen(Main) /\ Others
    \/ \E n \in 0..MaxRows, t \in Tears : FlushPart(Main, n, t) /\ Others
    \/ FlushClose(Main) /\ Others
    \/ Finally(Main) /\ Others

\* every step that can be taken is taken: each run goes on to its end and the
\* operator starts the next one
SpecCapped == Init /\ [][NextCapped]_vars /\ WF_vars(NextCapped)

\* C30: with a cap of N >= 1 contracts per run and a cache of more than N
\* contracts, running again and again to completion on one output path makes
\* progress: after finitely many runs every cached contract has a record in
\* the ledger.
C30_EveryContractGetsARecord ==
    <>(Keys \subseteq KeysOf(progress.rows))

====
